---- MODULE Spec2Model ----
(***************************************************************************)
(* Model of the real-time orchestrator of kiro-synth                       *)
(* (kiro-synth-engine/src/synth.rs): the bounded voice pool, the event     *)
(* channel drained by prepare(), the note allocation policy and the        *)
(* per-sample loop of process().                                           *)
(*                                                                         *)
(* Floating point values (velocity, signal, min, max, amount) are modelled *)
(* as integers in tenths: 0.9 is 9, 1.0 is 10.                             *)
(***************************************************************************)
EXTENDS Integers, Sequences, FiniteSets, TLC

(* ------------------------------------------------------------------ *)
(* Bounds of the model                                                 *)
(* ------------------------------------------------------------------ *)

\* size of the voice pool (consts::U32 in the source, scaled down)
MaxVoices == 2

\* capacity of the ring buffer behind the Consumer<Event<F>>
QueueCap == 3

\* number of events the control thread pushes in one run (note traffic)
MaxEvents == 4

\* number of events the control thread pushes in one run (parameter traffic)
MaxParamEvents == 2

\* number of process() calls in one run
MaxSamples == 2

\* number of events the control thread pushes in one run (mixed traffic)
MaxMixedEvents == 3
MaxLiveEvents == 4
MaxStampedEvents == 3

(* ------------------------------------------------------------------ *)
(* Inputs                                                              *)
(* ------------------------------------------------------------------ *)

Keys == {60, 62}

Velocities == {5, 10}

Timestamps == {0, 1}

\* note traffic is stamped alike: prepare() does not bind the timestamp
NoteTimestamps == {0}

\* keys of the three-note scenario
ScenarioKeys == {60, 62, 64}

\* handles 0 and 1 resolve, handle 2 does not
ParamRefs == {0, 1, 2}

SourceRefs == {0, 1, 2}

\* 0.7 lies inside [0, 1]; 1.5 and -0.5 lie outside
ParamValues == {7, 15, -5}

\* the deltas of ParamChange
Changes == {5, -20}

Amounts == {3}

NoteOnMessages(K) ==
  { [type |-> "NoteOn", key |-> k, velocity |-> v] : k \in K, v \in Velocities }

NoteOffMessages(K) ==
  { [type |-> "NoteOff", key |-> k, velocity |-> 0] : k \in K }

NoteMessages == NoteOnMessages(Keys) \cup NoteOffMessages(Keys)

ParamMessages ==
  { [type |-> "Param", param_ref |-> p, value |-> x] :
      p \in ParamRefs, x \in ParamValues }
  \cup
  { [type |-> "ParamChange", param_ref |-> p, change |-> c] :
      p \in ParamRefs, c \in Changes }
  \cup
  { [type |-> "ModulationAmount", param_ref |-> p, source_ref |-> s, amount |-> a] :
      p \in ParamRefs, s \in SourceRefs, a \in Amounts }

\* notes on one key, and parameter and modulation messages with handles
\* that resolve and handles that do not
MixedMessages ==
  { [type |-> "NoteOn", key |-> 60, velocity |-> 5],
    [type |-> "NoteOff", key |-> 60, velocity |-> 0],
    [type |-> "Param", param_ref |-> 0, value |-> 7],
    [type |-> "Param", param_ref |-> 2, value |-> 7],
    [type |-> "ParamChange", param_ref |-> 0, change |-> 5],
    [type |-> "ParamChange", param_ref |-> 2, change |-> 5],
    [type |-> "ModulationAmount", param_ref |-> 0, source_ref |-> 1, amount |-> 3],
    [type |-> "ModulationAmount", param_ref |-> 2, source_ref |-> 0, amount |-> 3],
    [type |-> "ModulationAmount", param_ref |-> 0, source_ref |-> 2, amount |-> 3] }

(* ------------------------------------------------------------------ *)
(* State                                                               *)
(* ------------------------------------------------------------------ *)

VARIABLES
  events,         \* the channel: events pushed and not yet popped, oldest first
  program,        \* the Program: params, sources, count of update_params calls
  voices,         \* the pool: index -> Voice
  active_voices,  \* indices of the playing voices
  free_voices,    \* stack of the indices available for allocation
  pc,             \* audio thread: "host" (between calls) or "prepare" (in the loop)
  enqueued,       \* history: the messages pushed so far, in push order
  log,            \* history: the messages prepare() has applied so far
  output,         \* the (left, right) sample the last process() returned
  trace,          \* history: the calls the last process() made, in order
  drained         \* history: the events the running prepare() has popped

vars == <<events, program, voices, active_voices, free_voices, pc, enqueued, log,
          output, trace, drained>>

VoiceIndices == 0 .. (MaxVoices - 1)

(* ------------------------------------------------------------------ *)
(* heapless::Vec and the ring buffer                                   *)
(* ------------------------------------------------------------------ *)

\* Vec::push on a Vec of capacity MaxVoices: a full Vec refuses the element
\* and the caller drops the error
VecPush(vec, x) == IF Len(vec) < MaxVoices THEN Append(vec, x) ELSE vec

\* a slip: the top is read and left on the stack
VecPeek(vec) ==
  IF vec = << >>
  THEN [some |-> FALSE, value |-> 0, vec |-> vec]
  ELSE [some |-> TRUE, value |-> vec[Len(vec)], vec |-> vec]

\* Vec::pop: None on an empty Vec, else Some(last element), which leaves
\* the Vec
VecPop(vec) ==
  IF vec = << >>
  THEN [some |-> FALSE, value |-> 0, vec |-> vec]
  ELSE [some |-> TRUE, value |-> vec[Len(vec)],
        vec |-> SubSeq(vec, 1, Len(vec) - 1)]

\* Vec::swap_remove(i), i counted from 0: the last element takes the place
\* of the removed one
SwapRemove(vec, i) ==
  LET n == Len(vec)
  IN  [j \in 1 .. (n - 1) |-> IF j = i + 1 THEN vec[n] ELSE vec[j]]

\* Producer::push: the event goes behind the ones already queued
RingPush(q, ev) == Append(q, ev)

\* a slip: the oldest event is read and stays in the buffer
RingPopPeek(q) == [event |-> Head(q), rest |-> q]

\* a slip: the newest event is taken
RingPopNewest(q) == [event |-> q[Len(q)], rest |-> SubSeq(q, 1, Len(q) - 1)]

\* Consumer::pop on a non-empty buffer: the oldest event and what remains
RingPop(q) == [event |-> Head(q), rest |-> Tail(q)]

(* ------------------------------------------------------------------ *)
(* Voice                                                               *)
(* ------------------------------------------------------------------ *)

VoiceNew == [phase |-> "idle", key |-> 0, velocity |-> 0]

VoiceNoteOn(v, key, velocity) ==
  [phase |-> "on", key |-> key, velocity |-> velocity]

VoiceNoteOff(v) == [v EXCEPT !.phase = "release"]

VoiceGetKey(v) == v.key

\* one sample; a releasing voice whose envelope has decayed reaches Off
VoiceProcess(v, decayed) ==
  IF v.phase = "release" /\ decayed THEN [v EXCEPT !.phase = "off"] ELSE v

VoiceIsOff(v) == v.phase = "off"

\* Voice::output: the (left, right) sample of the voice; a voice that has
\* just reached Off still reports the sample it computed
VoiceOutput(v) == [left |-> v.velocity, right |-> v.key]

(* ------------------------------------------------------------------ *)
(* Program                                                             *)
(* ------------------------------------------------------------------ *)

ProgramNew ==
  [ params |->
      [p \in {0, 1} |->
         IF p = 0
         THEN [signal |-> 9, min |-> 0, max |-> 10,
               modulators |-> << [source |-> 0, amount |-> 0],
                                 [source |-> 1, amount |-> 0] >>]
         ELSE [signal |-> 0, min |-> -10, max |-> 0,
               modulators |-> << [source |-> 0, amount |-> 0] >>]],
    sources |-> {0, 1},
    updates |-> 0 ]

\* Program::get_param_mut: Some iff the handle is in the table
ParamResolves(prog, param_ref) == param_ref \in DOMAIN prog.params

\* Program::get_source
SourceResolves(prog, source_ref) == source_ref \in prog.sources

\* Program::update_params
UpdateParams(prog) == [prog EXCEPT !.updates = @ + 1]

(* ------------------------------------------------------------------ *)
(* Synth: the message handlers of prepare()                            *)
(* A synth state st is [program, voices, active_voices, free_voices].  *)
(* ------------------------------------------------------------------ *)

SynthState ==
  [program |-> program, voices |-> voices,
   active_voices |-> active_voices, free_voices |-> free_voices]

\* Synth::new
SynthNew ==
  [program |-> ProgramNew,
   voices |-> [i \in VoiceIndices |-> VoiceNew],
   active_voices |-> << >>,
   free_voices |-> [i \in 1 .. MaxVoices |-> MaxVoices - (i - 1) - 1]]

\* a slip: the index that has been free for longest is taken
AllocateOldestFree(st, key, velocity) ==
  IF st.free_voices = << >>
  THEN [some |-> FALSE, value |-> 0, vec |-> st.free_voices]
  ELSE [some |-> TRUE, value |-> Head(st.free_voices),
        vec |-> Tail(st.free_voices)]

\* a slip: a free voice that played this key before is preferred
AllocateByKey(st, key, velocity) ==
  LET free == st.free_voices
      same == {p \in 1 .. Len(free) : VoiceGetKey(st.voices[free[p]]) = key}
  IN  IF same = {}
      THEN VecPop(free)
      ELSE LET p == CHOOSE p \in same : \A r \in same : p <= r
           IN  [some |-> TRUE, value |-> free[p],
                vec |-> SubSeq(free, 1, p - 1) \o SubSeq(free, p + 1, Len(free))]

\* Synth::allocate_voice: free_voices.pop(); key and velocity are not
\* looked at
AllocateVoice(st, key, velocity) == VecPop(st.free_voices)

\* a slip: the voice is looked up by its position in active_voices
NoteOnByPosition(st, key, velocity) ==
  LET allocated == AllocateVoice(st, key, velocity)
  IN  IF allocated.some
      THEN LET st1 == [st EXCEPT !.free_voices = allocated.vec,
                                 !.active_voices = VecPush(@, allocated.value)]
           IN  [st1 EXCEPT !.voices[Len(st1.active_voices) - 1] =
                              VoiceNoteOn(@, key, velocity)]
      ELSE st

\* a slip: with no free voice the oldest active voice is retriggered
NoteOnSteal(st, key, velocity) ==
  LET allocated == AllocateVoice(st, key, velocity)
  IN  IF allocated.some
      THEN LET index == allocated.value
           IN  [st EXCEPT !.free_voices = allocated.vec,
                          !.active_voices = VecPush(@, index),
                          !.voices[index] = VoiceNoteOn(@, key, velocity)]
      ELSE [st EXCEPT !.voices[st.active_voices[1]] =
                         VoiceNoteOn(@, key, velocity)]

\* Synth::note_on
NoteOn(st, key, velocity) ==
  LET allocated == AllocateVoice(st, key, velocity)
  IN  IF allocated.some
      THEN LET index == allocated.value
           IN  [st EXCEPT !.free_voices = allocated.vec,
                          !.active_voices = VecPush(@, index),
                          !.voices[index] = VoiceNoteOn(@, key, velocity)]
      ELSE st

\* the loop of Synth::note_off from position active_voice_index (from 0)
RECURSIVE NoteOffLoop(_, _, _)
NoteOffLoop(st, key, active_voice_index) ==
  IF active_voice_index >= Len(st.active_voices)
  THEN st
  ELSE LET voice_index == st.active_voices[active_voice_index + 1]
           voice == st.voices[voice_index]
           st1 == IF VoiceGetKey(voice) = key
                  THEN [st EXCEPT !.voices[voice_index] = VoiceNoteOff(voice)]
                  ELSE st
       IN  NoteOffLoop(st1, key, active_voice_index + 1)

\* a slip: the scan stops at the first voice holding the key
RECURSIVE NoteOffFirstLoop(_, _, _)
NoteOffFirstLoop(st, key, active_voice_index) ==
  IF active_voice_index >= Len(st.active_voices)
  THEN st
  ELSE LET voice_index == st.active_voices[active_voice_index + 1]
           voice == st.voices[voice_index]
       IN  IF VoiceGetKey(voice) = key
           THEN [st EXCEPT !.voices[voice_index] = VoiceNoteOff(voice)]
           ELSE NoteOffFirstLoop(st, key, active_voice_index + 1)

NoteOffFirst(st, key, velocity) == NoteOffFirstLoop(st, key, 0)

\* a slip: note_off recycles the matching voices at once
RECURSIVE NoteOffFreesLoop(_, _, _)
NoteOffFreesLoop(st, key, active_voice_index) ==
  IF active_voice_index >= Len(st.active_voices)
  THEN st
  ELSE LET voice_index == st.active_voices[active_voice_index + 1]
       IN  IF VoiceGetKey(st.voices[voice_index]) = key
           THEN NoteOffFreesLoop(
                  [st EXCEPT !.voices[voice_index] = VoiceNoteOff(@),
                             !.active_voices = SwapRemove(@, active_voice_index),
                             !.free_voices = VecPush(@, voice_index)],
                  key, active_voice_index)
           ELSE NoteOffFreesLoop(st, key, active_voice_index + 1)

NoteOffFrees(st, key, velocity) == NoteOffFreesLoop(st, key, 0)

\* a slip: the scan runs over the whole voice pool, free voices included
NoteOffAllVoices(st, key, velocity) ==
  [st EXCEPT !.voices =
     [i \in DOMAIN st.voices |->
        IF VoiceGetKey(st.voices[i]) = key
        THEN VoiceNoteOff(st.voices[i])
        ELSE st.voices[i]]]

\* Synth::note_off
NoteOff(st, key, velocity) == NoteOffLoop(st, key, 0)

Min(a, b) == IF a <= b THEN a ELSE b

Max(a, b) == IF a >= b THEN a ELSE b

\* a slip: min and max the wrong way round
ClampSwapped(value, lo, hi) == Min(Max(value, hi), lo)

\* value.min(param.values.max).max(param.values.min)
Clamp(value, lo, hi) == Max(Min(value, hi), lo)

\* a slip: a handle that does not resolve falls back to the first parameter
SetParamFallback(st, param_ref, value) ==
  IF ParamResolves(st.program, param_ref)
  THEN [st EXCEPT !.program.params[param_ref].signal = value]
  ELSE [st EXCEPT !.program.params[0].signal = value]

\* a slip: the direct set is clamped like a ParamChange
SetParamClamped(st, param_ref, value) ==
  IF ParamResolves(st.program, param_ref)
  THEN LET param == st.program.params[param_ref]
       IN  [st EXCEPT !.program.params[param_ref].signal =
                         Clamp(value, param.min, param.max)]
  ELSE st

\* Message::Param: signal.set(value), no clamping
SetParam(st, param_ref, value) ==
  IF ParamResolves(st.program, param_ref)
  THEN [st EXCEPT !.program.params[param_ref].signal = value]
  ELSE st

\* Message::ParamChange
ChangeParam(st, param_ref, change) ==
  IF ParamResolves(st.program, param_ref)
  THEN LET param == st.program.params[param_ref]
           value == Clamp(param.signal + change, param.min, param.max)
       IN  [st EXCEPT !.program.params[param_ref].signal = value]
  ELSE st

\* iter_mut().find(|m| m.source == source_ref): position of the first
\* modulator of the source, 0 when there is none
FindModulator(modulators, source_ref) ==
  LET hits == { i \in 1 .. Len(modulators) : modulators[i].source = source_ref }
  IN  IF hits = {} THEN 0
      ELSE CHOOSE i \in hits : \A j \in hits : i <= j

\* a slip: a missing modulator entry is created
SetModulationAmountUpsert(st, param_ref, source_ref, amount) ==
  IF SourceResolves(st.program, source_ref) /\ ParamResolves(st.program, param_ref)
  THEN LET m == FindModulator(st.program.params[param_ref].modulators, source_ref)
       IN  IF m = 0
           THEN [st EXCEPT !.program.params[param_ref].modulators =
                              Append(@, [source |-> source_ref, amount |-> amount])]
           ELSE [st EXCEPT !.program.params[param_ref].modulators[m].amount = amount]
  ELSE st

\* Message::ModulationAmount
SetModulationAmount(st, param_ref, source_ref, amount) ==
  IF SourceResolves(st.program, source_ref) /\ ParamResolves(st.program, param_ref)
  THEN LET m == FindModulator(st.program.params[param_ref].modulators, source_ref)
       IN  IF m = 0
           THEN st
           ELSE [st EXCEPT !.program.params[param_ref].modulators[m].amount = amount]
  ELSE st

\* the match of prepare() on one popped message
ApplyMessage(st, message) ==
  CASE message.type = "NoteOn" -> NoteOn(st, message.key, message.velocity)
    [] message.type = "NoteOff" -> NoteOff(st, message.key, message.velocity)
    [] message.type = "Param" -> SetParam(st, message.param_ref, message.value)
    [] message.type = "ParamChange" ->
         ChangeParam(st, message.param_ref, message.change)
    [] message.type = "ModulationAmount" ->
         SetModulationAmount(st, message.param_ref, message.source_ref,
                             message.amount)

\* a slip: an event stamped later than the samples produced so far is
\* taken off the channel and not applied
ApplyEventTimed(st, event) ==
  IF event.timestamp <= st.program.updates
  THEN ApplyMessage(st, event.message)
  ELSE st

\* Some(Event { timestamp: _, message }): the timestamp is not bound
ApplyEvent(st, event) == ApplyMessage(st, event.message)

\* Synth::prepare run to its end on the events q, with no push meanwhile
RECURSIVE DrainEvents(_, _)
DrainEvents(st, q) ==
  IF q = << >>
  THEN st
  ELSE LET popped == RingPop(q)
       IN  DrainEvents(ApplyEvent(st, popped.event), popped.rest)

(* ------------------------------------------------------------------ *)
(* Synth: process()                                                    *)
(* ------------------------------------------------------------------ *)

\* the locals of process() beside the Synth: the running sum, and the
\* calls made so far
ProcessEntry(st) ==
  [program |-> st.program, voices |-> st.voices,
   active_voices |-> st.active_voices, free_voices |-> st.free_voices,
   left |-> 0, right |-> 0, trace |-> << >>]

CallVoice(voice_index) == [call |-> "Voice::process", voice |-> voice_index]

CallUpdateParams == [call |-> "Program::update_params", voice |-> -1]

\* a slip: the sample of the voice replaces the running sum
MixOverwrite(sum, sample) == sample

\* left = left + voice_left, right = right + voice_right
Mix(sum, sample) == sum + sample

\* a slip: the freed index is not handed back
RecycleLost(st, active_voice_index, voice_index) ==
  [st EXCEPT !.active_voices = SwapRemove(@, active_voice_index)]

\* the is_off branch: swap_remove from active_voices, push onto free_voices
Recycle(st, active_voice_index, voice_index) ==
  [st EXCEPT !.active_voices = SwapRemove(@, active_voice_index),
             !.free_voices = VecPush(@, voice_index)]

\* a slip: the cursor moves on after a removal too
NextIndexAlways(active_voice_index, is_off) == active_voice_index + 1

\* the cursor stays where it is after a removal: the last element now
\* stands there
NextIndex(active_voice_index, is_off) ==
  IF is_off THEN active_voice_index ELSE active_voice_index + 1

\* the while loop of process() from position active_voice_index (from 0);
\* decayed is the set of voices whose envelope ends in this sample
RECURSIVE ProcessLoop(_, _, _)
ProcessLoop(st, active_voice_index, decayed) ==
  IF active_voice_index >= Len(st.active_voices)
  THEN st
  ELSE LET voice_index == st.active_voices[active_voice_index + 1]
           voice == VoiceProcess(st.voices[voice_index], voice_index \in decayed)
           sample == VoiceOutput(voice)
           st1 == [st EXCEPT !.voices[voice_index] = voice,
                             !.trace = Append(@, CallVoice(voice_index)),
                             !.left = Mix(@, sample.left),
                             !.right = Mix(@, sample.right)]
           is_off == VoiceIsOff(voice)
           st2 == IF is_off
                  THEN Recycle(st1, active_voice_index, voice_index)
                  ELSE st1
       IN  ProcessLoop(st2, NextIndex(active_voice_index, is_off), decayed)

\* a slip: update_params sits inside the if freed_voices block
ProcessSampleUpdateIfFreed(st, decayed) ==
  LET st1 == ProcessLoop(ProcessEntry(st), 0, decayed)
  IN  IF Len(st1.active_voices) < Len(st.active_voices)
      THEN [st1 EXCEPT !.program = UpdateParams(@),
                       !.trace = Append(@, CallUpdateParams)]
      ELSE st1

\* Synth::process
ProcessSample(st, decayed) ==
  LET st1 == ProcessLoop(ProcessEntry(st), 0, decayed)
  IN  [st1 EXCEPT !.program = UpdateParams(@),
                  !.trace = Append(@, CallUpdateParams)]

(* ------------------------------------------------------------------ *)
(* Actions                                                             *)
(* ------------------------------------------------------------------ *)

Init ==
  /\ events = << >>
  /\ program = SynthNew.program
  /\ voices = SynthNew.voices
  /\ active_voices = SynthNew.active_voices
  /\ free_voices = SynthNew.free_voices
  /\ pc = "host"
  /\ enqueued = << >>
  /\ log = << >>
  /\ output = [left |-> 0, right |-> 0]
  /\ trace = << >>
  /\ drained = 0

\* control thread: push one event; a full buffer refuses it
Push(Messages, Stamps, budget) ==
  /\ Len(enqueued) < budget
  /\ Len(events) < QueueCap
  /\ \E message \in Messages, timestamp \in Stamps :
       /\ events' = RingPush(events, [timestamp |-> timestamp, message |-> message])
       /\ enqueued' = Append(enqueued, message)
  /\ UNCHANGED <<program, voices, active_voices, free_voices, pc, log,
                 output, trace, drained>>

\* audio thread: the host calls prepare()
PrepareCall ==
  /\ pc = "host"
  /\ pc' = "prepare"
  /\ drained' = 0
  /\ UNCHANGED <<events, program, voices, active_voices, free_voices, enqueued, log,
                 output, trace>>

\* audio thread: one turn of the while loop, pop() returned Some(event)
PreparePop ==
  /\ pc = "prepare"
  /\ events # << >>
  /\ LET popped == RingPop(events)
         st == ApplyEvent(SynthState, popped.event)
     IN  /\ events' = popped.rest
         /\ program' = st.program
         /\ voices' = st.voices
         /\ active_voices' = st.active_voices
         /\ free_voices' = st.free_voices
         /\ log' = Append(log, popped.event.message)
  /\ drained' = drained + 1
  /\ UNCHANGED <<pc, enqueued, output, trace>>

\* audio thread: pop() returned None, prepare() returns
PrepareReturn ==
  /\ pc = "prepare"
  /\ events = << >>
  /\ pc' = "host"
  /\ drained' = 0
  /\ UNCHANGED <<events, program, voices, active_voices, free_voices, enqueued, log,
                 output, trace>>

\* audio thread: the host calls process() for one sample
Process ==
  /\ pc = "host"
  /\ program.updates < MaxSamples
  /\ \E decayed \in SUBSET { i \in VoiceIndices : voices[i].phase = "release" } :
       LET st == ProcessSample(SynthState, decayed)
       IN  /\ program' = st.program
           /\ voices' = st.voices
           /\ active_voices' = st.active_voices
           /\ free_voices' = st.free_voices
           /\ output' = [left |-> st.left, right |-> st.right]
           /\ trace' = st.trace
  /\ UNCHANGED <<events, pc, enqueued, log, drained>>

\* note traffic
Next ==
  \/ Push(NoteMessages, NoteTimestamps, MaxEvents)
  \/ PrepareCall
  \/ PreparePop
  \/ PrepareReturn
  \/ Process

Spec == Init /\ [][Next]_vars

\* parameter and modulation traffic
NextParams ==
  \/ Push(ParamMessages, Timestamps, MaxParamEvents)
  \/ PrepareCall
  \/ PreparePop
  \/ PrepareReturn
  \/ Process

SpecParams == Init /\ [][NextParams]_vars

\* notes, parameters and modulation amounts in one stream
NextMixed ==
  \/ Push(MixedMessages, NoteTimestamps, MaxMixedEvents)
  \/ PrepareCall
  \/ PreparePop
  \/ PrepareReturn
  \/ Process

SpecMixed == Init /\ [][NextMixed]_vars

\* a note and a parameter under every stamping
StampedMessages ==
  { [type |-> "NoteOn", key |-> 60, velocity |-> 5],
    [type |-> "NoteOff", key |-> 60, velocity |-> 0],
    [type |-> "Param", param_ref |-> 0, value |-> 7] }

NextStamped ==
  \/ Push(StampedMessages, Timestamps, MaxStampedEvents)
  \/ PrepareCall
  \/ PreparePop
  \/ PrepareReturn
  \/ Process

SpecStamped == Init /\ [][NextStamped]_vars

\* a fresh Synth whose channel already holds NoteOn events, and one thread
\* of prepare() calls over it
InitFresh ==
  /\ events \in UNION { [1 .. n -> [timestamp : Timestamps,
                                    message : NoteOnMessages(ScenarioKeys)]] :
                        n \in 0 .. QueueCap }
  /\ program = SynthNew.program
  /\ voices = SynthNew.voices
  /\ active_voices = SynthNew.active_voices
  /\ free_voices = SynthNew.free_voices
  /\ pc = "host"
  /\ enqueued = [i \in 1 .. Len(events) |-> events[i].message]
  /\ log = << >>
  /\ output = [left |-> 0, right |-> 0]
  /\ trace = << >>
  /\ drained = 0

NextFresh ==
  \/ PrepareCall
  \/ PreparePop
  \/ PrepareReturn

SpecFresh == InitFresh /\ [][NextFresh]_vars

\* audio thread: process() for one sample in which the voices of decayed
\* end their release; the count of samples wraps, so that the host can go
\* on calling for ever
ProcessWith(decayed) ==
  /\ pc = "host"
  /\ LET st == ProcessSample(SynthState, decayed)
     IN  /\ program' = [st.program EXCEPT !.updates = @ % (MaxSamples + 1)]
         /\ voices' = st.voices
         /\ active_voices' = st.active_voices
         /\ free_voices' = st.free_voices
         /\ output' = [left |-> st.left, right |-> st.right]
         /\ trace' = st.trace
  /\ UNCHANGED <<events, pc, enqueued, log, drained>>

ProcessForever ==
  \E decayed \in SUBSET { i \in VoiceIndices : voices[i].phase = "release" } :
    ProcessWith(decayed)

Range(seq) == { seq[i] : i \in 1 .. Len(seq) }

\* voice_index is active and releasing while the host is between calls
Releasing(voice_index) ==
  /\ pc = "host"
  /\ voice_index \in Range(active_voices)
  /\ voices[voice_index].phase = "release"

\* a process() call in which the release of voice_index ends
Decays(voice_index) ==
  /\ Releasing(voice_index)
  /\ VoiceIsOff(voices'[voice_index])

\* two keys at one velocity; only key 60 is ever released
LiveMessages ==
  { [type |-> "NoteOn", key |-> 60, velocity |-> 5],
    [type |-> "NoteOn", key |-> 62, velocity |-> 5],
    [type |-> "NoteOff", key |-> 60, velocity |-> 0] }

\* note traffic under a host that never stops calling
NextLive ==
  \/ Push(LiveMessages, NoteTimestamps, MaxLiveEvents)
  \/ PrepareCall
  \/ PreparePop
  \/ PrepareReturn
  \/ ProcessForever

\* a prepare() call runs to its end; and strong fairness of the process()
\* call that ends a release, its enabling condition written out: a voice
\* that the host samples again and again while it is releasing reaches Off
Fairness ==
  /\ WF_vars(PreparePop)
  /\ WF_vars(PrepareReturn)
  /\ \A i \in VoiceIndices :
       []<>Releasing(i) => []<><<Decays(i)>>_vars

SpecLive == Init /\ [][NextLive]_vars /\ Fairness

(* ------------------------------------------------------------------ *)
(* Vocabulary of the properties                                        *)
(* ------------------------------------------------------------------ *)


NoDuplicates(seq) ==
  \A i, j \in 1 .. Len(seq) : i # j => seq[i] # seq[j]

\* seq without its position p
WithoutPosition(seq, p) ==
  [i \in 1 .. (Len(seq) - 1) |-> IF i < p THEN seq[i] ELSE seq[i + 1]]

\* this step is one turn of the loop of prepare(): a message was applied
AppliedStep == Len(log') = Len(log) + 1

\* the message this step applied
Applied == log'[Len(log')]

LastApplied == log[Len(log)]

(* ------------------------------------------------------------------ *)
(* Properties                                                          *)
(* ------------------------------------------------------------------ *)

\* C1: in every reachable state active_voices and free_voices hold no
\* duplicate, are disjoint, and together hold exactly the indices
\* 0 .. MaxVoices-1; a refused push would lose an index and break this.
C1_PoolPartition ==
  /\ NoDuplicates(active_voices)
  /\ NoDuplicates(free_voices)
  /\ Range(active_voices) \cap Range(free_voices) = {}
  /\ Range(active_voices) \cup Range(free_voices) = VoiceIndices
  /\ Len(active_voices) + Len(free_voices) = MaxVoices

\* a voice was allocated, released and recycled while another one plays
C1_Witness ==
  /\ Len(active_voices) >= 1
  /\ Len(free_voices) >= 1
  /\ \E i \in Range(free_voices) : voices[i].phase = "off"

\* C2: a NoteOn applied while free_voices is non-empty moves exactly one
\* index from free_voices to the end of active_voices, activates that
\* voice with the key and velocity of the message, and changes no other
\* voice, no other index and not the program.
C2_NoteOnAllocates ==
  [][ (AppliedStep /\ Applied.type = "NoteOn" /\ free_voices # << >>) =>
        \E p \in 1 .. Len(free_voices) :
          LET index == free_voices[p]
          IN  /\ free_voices' = WithoutPosition(free_voices, p)
              /\ active_voices' = Append(active_voices, index)
              /\ voices'[index] = [phase |-> "on", key |-> Applied.key,
                                   velocity |-> Applied.velocity]
              /\ \A j \in VoiceIndices \ {index} : voices'[j] = voices[j]
              /\ program' = program ]_vars

\* the last message applied was a NoteOn that took the second voice
C2_Witness ==
  /\ log # << >>
  /\ LastApplied.type = "NoteOn"
  /\ Len(active_voices) = 2
  /\ voices[active_voices[2]] = [phase |-> "on", key |-> LastApplied.key,
                                 velocity |-> LastApplied.velocity]

\* C3: a NoteOn applied while free_voices is empty changes nothing: not
\* the two index lists, not a voice, not the program.
C3_NoteOnDropped ==
  [][ (AppliedStep /\ Applied.type = "NoteOn" /\ free_voices = << >>) =>
        UNCHANGED <<active_voices, free_voices, voices, program>> ]_vars

\* a NoteOn was applied with every voice playing, and no voice holds it
C3_Witness ==
  /\ Len(log) > MaxVoices
  /\ LastApplied.type = "NoteOn"
  /\ \A i \in 1 .. Len(log) : log[i].type = "NoteOn"
  /\ free_voices = << >>
  /\ \A i \in VoiceIndices :
       voices[i].key # LastApplied.key \/ voices[i].velocity # LastApplied.velocity

\* C4: on a fresh Synth, once prepare() has returned over a queue of k
\* NoteOn events, active_voices holds min(k, MaxVoices) voices, the i-th
\* of them playing the key and velocity of the i-th NoteOn pushed, and
\* the remaining MaxVoices - min(k, MaxVoices) indices are free.
C4_FirstNotesWin ==
  (pc = "host" /\ events = << >>) =>
    LET k == Len(enqueued)
        n == IF k <= MaxVoices THEN k ELSE MaxVoices
    IN  /\ Len(active_voices) = n
        /\ Len(free_voices) = MaxVoices - n
        /\ \A i \in 1 .. n :
             voices[active_voices[i]] =
               [phase |-> "on", key |-> enqueued[i].key,
                velocity |-> enqueued[i].velocity]

\* NoteOn(60), NoteOn(62), NoteOn(64) with two voices: 60 and 62 play
C4_Witness ==
  /\ pc = "host"
  /\ events = << >>
  /\ Len(enqueued) = 3
  /\ enqueued[1].key = 60 /\ enqueued[2].key = 62 /\ enqueued[3].key = 64
  /\ Len(active_voices) = 2
  /\ voices[active_voices[1]].key = 60
  /\ voices[active_voices[2]].key = 62
  /\ free_voices = << >>

\* C5: a NoteOff applied puts every active voice holding its key into
\* release and leaves every other voice, active or free, as it was.
C5_NoteOffReleasesAll ==
  [][ (AppliedStep /\ Applied.type = "NoteOff") =>
        /\ \A i \in VoiceIndices :
             voices'[i] =
               IF i \in Range(active_voices) /\ voices[i].key = Applied.key
               THEN [voices[i] EXCEPT !.phase = "release"]
               ELSE voices[i]
        /\ UNCHANGED <<active_voices, free_voices, program>> ]_vars

\* two active voices held the key of the NoteOff and both are releasing
C5_Witness ==
  /\ log # << >>
  /\ LastApplied.type = "NoteOff"
  /\ Len(active_voices) = 2
  /\ \A i \in Range(active_voices) :
       voices[i].key = LastApplied.key /\ voices[i].phase = "release"

\* C6: a ParamChange applied to a parameter that resolves (min <= max)
\* sets its signal to signal + change brought back into [min, max], so
\* the new signal lies in [min, max]; 0.9 + 0.5 in [0, 1] gives 1.0.
C6_ParamChangeClamps ==
  [][ (AppliedStep /\ Applied.type = "ParamChange"
         /\ Applied.param_ref \in DOMAIN program.params) =>
        LET param == program.params[Applied.param_ref]
            sum == param.signal + Applied.change
            signal == program'.params[Applied.param_ref].signal
        IN  /\ param.min <= param.max
            /\ signal = IF sum < param.min THEN param.min
                        ELSE IF sum > param.max THEN param.max
                        ELSE sum
            /\ param.min <= signal /\ signal <= param.max
            /\ (param.min = 0 /\ param.max = 10 /\ param.signal = 9
                   /\ Applied.change = 5) => signal = 10 ]_vars

\* min = 0, max = 1, current = 0.9, delta = 0.5 was applied: signal is 1.0
C6_Witness ==
  /\ Len(log) = 1
  /\ LastApplied = [type |-> "ParamChange", param_ref |-> 0, change |-> 5]
  /\ program.params[0].min = 0
  /\ program.params[0].max = 10
  /\ program.params[0].signal = 10

\* C7: a Param applied to a parameter that resolves sets its signal to
\* exactly the value of the message, inside [min, max] or not.
C7_ParamSetsUnclamped ==
  [][ (AppliedStep /\ Applied.type = "Param"
         /\ Applied.param_ref \in DOMAIN program.params) =>
        program'.params[Applied.param_ref].signal = Applied.value ]_vars

\* 0.7 was set and then 1.5, above max = 1.0, and the signal reads 1.5
C7_Witness ==
  /\ Len(log) = 2
  /\ log[1] = [type |-> "Param", param_ref |-> 0, value |-> 7]
  /\ LastApplied = [type |-> "Param", param_ref |-> 0, value |-> 15]
  /\ program.params[0].max = 10
  /\ program.params[0].signal = 15

\* C8: a ModulationAmount whose handles both resolve overwrites the
\* amount of the parameter's modulator entry for the source and nothing
\* else; when the parameter has no entry for the source the program is
\* unchanged, so no entry is created.
C8_ModulationAmountFrame ==
  [][ (AppliedStep /\ Applied.type = "ModulationAmount"
         /\ Applied.param_ref \in DOMAIN program.params
         /\ Applied.source_ref \in program.sources) =>
        LET modulators == program.params[Applied.param_ref].modulators
            entries == { i \in 1 .. Len(modulators) :
                           modulators[i].source = Applied.source_ref }
        IN  /\ Len(program'.params[Applied.param_ref].modulators) = Len(modulators)
            /\ IF entries = {}
               THEN program' = program
               ELSE \E i \in entries :
                      program' = [program EXCEPT
                        !.params[Applied.param_ref].modulators[i].amount =
                           Applied.amount]
            /\ UNCHANGED <<voices, active_voices, free_voices>> ]_vars

\* an amount for a pair without entry was dropped, then an amount for an
\* existing pair was written into its entry only
C8_Witness ==
  /\ Len(log) = 2
  /\ log[1] = [type |-> "ModulationAmount", param_ref |-> 1, source_ref |-> 1,
               amount |-> 3]
  /\ log[2] = [type |-> "ModulationAmount", param_ref |-> 0, source_ref |-> 1,
               amount |-> 3]
  /\ program.params[1].modulators = << [source |-> 0, amount |-> 0] >>
  /\ program.params[0].modulators =
       << [source |-> 0, amount |-> 0], [source |-> 1, amount |-> 3] >>

\* this step is a process() call
ProcessStep == program'.updates = program.updates + 1

\* C9: in a process() call every active voice that reports is_off leaves
\* active_voices and is pushed once onto free_voices, above what was
\* there, so the voice freed last is on top; a NoteOn takes the index on
\* top of free_voices, hence the one freed most recently.
C9_RecycleThenReuse ==
  [][ /\ ProcessStep =>
           LET freed == { i \in Range(active_voices) : voices'[i].phase = "off" }
               pushed == SubSeq(free_voices', Len(free_voices) + 1,
                                Len(free_voices'))
           IN  /\ Range(active_voices') = Range(active_voices) \ freed
               /\ NoDuplicates(active_voices')
               /\ SubSeq(free_voices', 1, Len(free_voices)) = free_voices
               /\ Range(pushed) = freed
               /\ NoDuplicates(pushed)
      /\ (AppliedStep /\ Applied.type = "NoteOn" /\ free_voices # << >>) =>
           /\ active_voices' = Append(active_voices, free_voices[Len(free_voices)])
           /\ free_voices' = SubSeq(free_voices, 1, Len(free_voices) - 1) ]_vars

\* voices 0 and 1 played key 60 and were released; voice 0 was freed,
\* then voice 1; the NoteOn for key 62 took voice 1, the one freed last
C9_Witness ==
  /\ Len(log) = 4
  /\ log[1].type = "NoteOn" /\ log[1].key = 60
  /\ log[2].type = "NoteOn" /\ log[2].key = 60
  /\ log[3].type = "NoteOff" /\ log[3].key = 60
  /\ log[4].type = "NoteOn" /\ log[4].key = 62
  /\ active_voices = << 1 >>
  /\ free_voices = << 0 >>
  /\ voices[1].phase = "on" /\ voices[1].key = 62
  /\ voices[0].phase = "off"

\* the messages of the events waiting in the channel, oldest first
Waiting == [i \in 1 .. Len(events) |-> events[i].message]

\* C10: the messages applied so far followed by the messages waiting in
\* the channel are the messages pushed, in push order (none applied
\* twice, none skipped, none out of order), and when prepare() returns
\* every message pushed so far has been applied.
C10_FifoExactlyOnce ==
  /\ [](enqueued = log \o Waiting)
  /\ [][ (pc = "prepare" /\ pc' = "host") => log = enqueued ]_vars

\* prepare() has returned with an empty channel after three messages,
\* each different from the one before it, were pushed and applied
C10_Witness ==
  /\ pc = "host"
  /\ Len(log) = 3
  /\ events = << >>
  /\ log[1] # log[2]
  /\ log[2] # log[3]
  /\ program.updates = 0

\* the handles of the message do not all resolve
Unresolved(message) ==
  \/ /\ message.type \in {"Param", "ParamChange"}
     /\ message.param_ref \notin DOMAIN program.params
  \/ /\ message.type = "ModulationAmount"
     /\ \/ message.param_ref \notin DOMAIN program.params
        \/ message.source_ref \notin program.sources

\* C11: a Param or ParamChange whose param_ref does not resolve, and a
\* ModulationAmount whose source_ref or param_ref does not resolve, changes
\* neither the program nor a voice nor the two index lists; the loop of
\* prepare() goes on with the events behind it.
C11_UnresolvedIsNoOp ==
  [][ (AppliedStep /\ Unresolved(Applied)) =>
        /\ UNCHANGED <<program, voices, active_voices, free_voices>>
        /\ pc' = "prepare"
        /\ events' = Tail(events) ]_vars

\* with a voice playing, a Param for handle 2 was dropped and the Param
\* behind it was applied
C11_Witness ==
  /\ Len(log) = 3
  /\ log[1].type = "NoteOn"
  /\ log[2] = [type |-> "Param", param_ref |-> 2, value |-> 7]
  /\ log[3] = [type |-> "ParamChange", param_ref |-> 0, change |-> 5]
  /\ 2 \notin DOMAIN program.params
  /\ program.params[0].signal = 10
  /\ Len(active_voices) = 1
  /\ voices[active_voices[1]].phase = "on"

\* C12: a call of prepare() pops a bounded number of events, whatever the
\* control thread pushes meanwhile: no more than the channel can hold.
C12_DrainBounded == drained <= QueueCap

\* a call of process(): the host is between calls before and after, and the
\* channel is not touched
SampleStep ==
  /\ pc = "host"
  /\ pc' = "host"
  /\ events' = events
  /\ vars' # vars

\* the calls of Voice::process in a call record, in order
VoiceCalls(calls) == SelectSeq(calls, LAMBDA c : c.call = "Voice::process")

\* how many times voice_index was advanced in a call record
Advanced(calls, voice_index) ==
  Len(SelectSeq(calls, LAMBDA c : c = CallVoice(voice_index)))

RECURSIVE SumOver(_, _)
SumOver(f, S) ==
  IF S = {}
  THEN 0
  ELSE LET x == CHOOSE x \in S : TRUE IN f[x] + SumOver(f, S \ {x})

\* C13: one call of process() advances every voice that is in active_voices
\* at entry exactly once and no other voice, whatever is swap-removed during
\* the traversal; the loop makes as many turns as there were active voices.
C13_EachActiveOnce ==
  [][ SampleStep =>
        /\ \A i \in VoiceIndices :
             Advanced(trace', i) = IF i \in Range(active_voices) THEN 1 ELSE 0
        /\ Len(VoiceCalls(trace')) = Len(active_voices) ]_vars

\* the voice at the cursor was removed, the last one took its place and was
\* advanced too, and then removed as the last element: all were removed
C13_Witness ==
  /\ Len(trace) = 3
  /\ trace[1] = CallVoice(0)
  /\ trace[2] = CallVoice(1)
  /\ active_voices = << >>
  /\ free_voices = <<0, 1>>

\* C14: process() returns per channel the plain sum of the outputs of the
\* voices that were active at entry, those recycled in this call included,
\* and (0, 0) when no voice is active.
C14_OutputIsSum ==
  [][ SampleStep =>
        /\ output'.left =
             SumOver([i \in VoiceIndices |-> VoiceOutput(voices'[i]).left],
                     Range(active_voices))
        /\ output'.right =
             SumOver([i \in VoiceIndices |-> VoiceOutput(voices'[i]).right],
                     Range(active_voices))
        /\ (active_voices = << >> => output' = [left |-> 0, right |-> 0]) ]_vars

\* two voices of velocity 5 and 10 were mixed and one of them was recycled
\* in that call
C14_Witness ==
  /\ output.left = 15
  /\ Len(active_voices) = 1
  /\ \E i \in Range(free_voices) :
       /\ voices[i].phase = "off"
       /\ Advanced(trace, i) = 1

\* C15: a call of process() calls update_params exactly once, after the last
\* voice, with or without active voices and recycling; no other step, and so
\* no turn of prepare(), advances the smoothing.
C15_UpdateParamsOnce ==
  [][ /\ SampleStep =>
          /\ program'.updates = program.updates + 1
          /\ trace'[Len(trace')] = CallUpdateParams
          /\ Len(SelectSeq(trace', LAMBDA c : c = CallUpdateParams)) = 1
          /\ Len(trace') = Len(active_voices) + 1
      /\ ~SampleStep => program'.updates = program.updates ]_vars

\* a call that recycled a voice, then a call with no active voice: two
\* updates
C15_Witness ==
  /\ program.updates = 2
  /\ trace = <<CallUpdateParams>>
  /\ \E i \in Range(free_voices) : voices[i].phase = "off"

\* C16: a turn of prepare() moves no index from active_voices to free_voices
\* (NoteOff leaves both lists as they are); an index goes from active to free
\* only in a call of process() that advanced its voice and found it off;
\* process() moves no index from free to active.
C16_OnlyProcessFrees ==
  [][ /\ AppliedStep =>
          /\ Range(active_voices) \subseteq Range(active_voices')
          /\ Range(free_voices') \subseteq Range(free_voices)
      /\ (AppliedStep /\ Applied.type = "NoteOff") =>
          UNCHANGED <<active_voices, free_voices>>
      /\ \A i \in Range(active_voices) \cap Range(free_voices') :
          /\ SampleStep
          /\ Advanced(trace', i) = 1
          /\ VoiceIsOff(voices'[i])
      /\ SampleStep => Range(active_voices') \subseteq Range(active_voices) ]_vars

\* two voices held the key of the one NoteOff applied; the process() call
\* after it recycled the one that had decayed and left the other, still
\* releasing, in active_voices
C16_Witness ==
  /\ pc = "host"
  /\ Len(log) = 3
  /\ LastApplied.type = "NoteOff"
  /\ Len(trace) = 3
  /\ \E i \in Range(active_voices), j \in Range(free_voices) :
       /\ voices[i].phase = "release"
       /\ voices[i].key = LastApplied.key
       /\ Advanced(trace, i) = 1
       /\ voices[j].phase = "off"
       /\ voices[j].key = LastApplied.key
       /\ Advanced(trace, j) = 1

\* the events q carrying the timestamps stamps instead of their own
Restamp(q, stamps) ==
  [i \in 1 .. Len(q) |-> [q[i] EXCEPT !.timestamp = stamps[i]]]

\* C17: timestamps have no effect: from any reachable state, draining the
\* waiting events and draining the same messages under any other stamping,
\* monotonic or not, gives the same synth state and the same result of the
\* process() call that follows; and no sample is computed while a prepare()
\* call is under way, so the messages of a block are all applied before
\* its first sample.
C17_TimestampsIgnored ==
  /\ [](LET one == DrainEvents(SynthState, events)
            releasing == { i \in VoiceIndices : one.voices[i].phase = "release" }
        IN  \A stamps \in [1 .. Len(events) -> Timestamps] :
              LET other == DrainEvents(SynthState, Restamp(events, stamps))
              IN  /\ one = other
                  /\ \A decayed \in SUBSET releasing :
                       ProcessSample(one, decayed) = ProcessSample(other, decayed))
  /\ [][ SampleStep => (drained = 0 /\ events' = events) ]_vars

\* prepare() has applied an event and finds behind it an event stamped 1
\* followed by an event stamped 0
C17_Witness ==
  /\ pc = "prepare"
  /\ drained = 1
  /\ Len(events) = 2
  /\ events[1].timestamp = 1
  /\ events[2].timestamp = 0
  /\ events[1].message.type = "NoteOn"

\* C18: the index a NoteOn takes is the top of free_voices whatever the
\* key and the velocity are; a NoteOn for a key that an active voice
\* already holds appends that fresh index and leaves every active voice
\* as it was, so two voices can hold the same key.
C18_AllocationIgnoresKey ==
  /\ [](\A key \in ScenarioKeys, velocity \in Velocities :
          LET allocated == AllocateVoice(SynthState, key, velocity)
          IN  /\ allocated.some = (free_voices # << >>)
              /\ allocated.some =>
                   allocated.value = free_voices[Len(free_voices)])
  /\ [][ (AppliedStep /\ Applied.type = "NoteOn" /\ free_voices # << >>) =>
          LET index == free_voices[Len(free_voices)]
          IN  /\ index \notin Range(active_voices)
              /\ active_voices' = Append(active_voices, index)
              /\ voices'[index].key = Applied.key
              /\ \A j \in Range(active_voices) : voices'[j] = voices[j] ]_vars

\* a NoteOn for a key that was already sounding took the other index: two
\* voices sound the same key, each with its own velocity
C18_Witness ==
  /\ Len(active_voices) = 2
  /\ LastApplied.type = "NoteOn"
  /\ \A p \in 1 .. 2 :
       /\ voices[active_voices[p]].phase = "on"
       /\ voices[active_voices[p]].key = LastApplied.key
  /\ voices[active_voices[1]].velocity # voices[active_voices[2]].velocity

\* C19: a voice whose index is in free_voices is not advanced by process()
\* and adds nothing to its output, and a NoteOff does not touch it even if
\* it still records the key; its state changes only in the turn of
\* prepare() whose NoteOn moves it to active_voices.
C19_FreeVoiceUntouched ==
  [][ /\ \A i \in Range(free_voices) :
          /\ voices'[i] # voices[i] =>
                /\ AppliedStep
                /\ Applied.type = "NoteOn"
                /\ i \in Range(active_voices')
          /\ SampleStep => Advanced(trace', i) = 0
      /\ SampleStep =>
          /\ output'.left =
               SumOver([i \in VoiceIndices |-> voices[i].velocity],
                       VoiceIndices \ Range(free_voices))
          /\ output'.right =
               SumOver([i \in VoiceIndices |-> voices[i].key],
                       VoiceIndices \ Range(free_voices)) ]_vars

\* a recycled voice still records key k; a NoteOff for k was applied and
\* the voice is still off and free, while process() mixed only the other
C19_Witness ==
  /\ Len(log) = 4
  /\ LastApplied.type = "NoteOff"
  /\ Len(active_voices) = 1
  /\ voices[active_voices[1]].phase = "release"
  /\ \E i \in Range(free_voices) :
       /\ voices[i].phase = "off"
       /\ voices[i].key = LastApplied.key

\* C20: if every release ends after finitely many samples and the host
\* keeps calling process(), the index of every active voice that a NoteOff
\* released comes back to free_voices, and a NoteOn applied while
\* free_voices holds an index is not dropped; a voice that is neither
\* released nor reports is_off stays in active_voices.
C20_ReleasedEventuallyFree ==
  /\ \A i \in VoiceIndices :
       (i \in Range(active_voices) /\ voices[i].phase = "release")
         ~> (i \in Range(free_voices))
  /\ [][ /\ (AppliedStep /\ Applied.type = "NoteOn" /\ free_voices # << >>) =>
            /\ Len(active_voices') = Len(active_voices) + 1
            /\ voices'[active_voices'[Len(active_voices')]].key = Applied.key
         /\ \A i \in Range(active_voices) :
            /\ i \notin Range(active_voices') => VoiceIsOff(voices'[i])
            /\ voices[i].phase = "on" =>
                 /\ i \in Range(active_voices')
                 /\ ~VoiceIsOff(voices'[i])
                 /\ voices'[i].phase = "release" =>
                      (AppliedStep /\ Applied.type = "NoteOff"
                         /\ Applied.key = voices[i].key) ]_vars

\* the pool was full, a NoteOff released one voice, process() recycled it,
\* and the NoteOn that came next got that voice
C20_Witness ==
  /\ Len(log) = 4
  /\ log[1].type = "NoteOn"
  /\ log[2].type = "NoteOn"
  /\ log[3].type = "NoteOff"
  /\ log[4].type = "NoteOn"
  /\ log[4].key # log[3].key
  /\ Len(active_voices) = MaxVoices
  /\ \A i \in Range(active_voices) : voices[i].phase = "on"
  /\ voices[active_voices[MaxVoices]].key = log[4].key
  /\ voices[active_voices[MaxVoices]].velocity = log[4].velocity

====
